---- MODULE Spec2Model ----

(***************************************************************************)
(* A model of github.com/johnsiilver/arena: the lease handles (Writer and  *)
(* Reader), the bump-pointer arena, the arena Pool with its background     *)
(* reclamation goroutines, and the two-tier mempool.Pool that recycles     *)
(* arenas.                                                                 *)
(*                                                                         *)
(* The specifications of the module:                                      *)
(*   SpecHandle  one Writer over one block with its bytes, converted to a  *)
(*               Reader and read back (Write, Reset, Reader, Read).        *)
(*   Spec        the Pool: GetWriter, the swap on arena-full, Release,     *)
(*               Writer.Reader, the handleDepleted goroutines, mempool     *)
(*               Get/Put, with blocks as byte ranges.                      *)
(*   FairSpec    Spec with the scheduling of its goroutines.               *)
(*   SpecArena   one arena: GetWriter and Reset.                           *)
(*   SpecTest    TestPool: one producer requesting twice the arena's size  *)
(*               in equal Writers, each converted and released.            *)
(***************************************************************************)
EXTENDS Integers, Sequences, FiniteSets, TLC

(***************************************************************************)
(* Bounds of the model.                                                    *)
(***************************************************************************)
\* SpecHandle: the largest block a handle views
MaxCap == 2

\* SpecHandle: the number of Write calls on the handle
MaxWrites == 2

\* SpecHandle: the number of Read calls on the handle
MaxReads == 3

\* Spec: the width of uint and int in bits (64 in the build, scaled down)
WordBits == 8

\* Spec: the arena size handed to New
ArenaSize == 10

\* Spec: the number of arenas the factory may construct
MaxArenas == 2

\* Spec: the number of handles the callers hold at once
MaxHandles == 2

\* SpecTest: the number of Readers TestPool's consumers have not yet released
MaxInFlight == 2

\* SpecHandle: the byte values blocks and slices are made of
Bytes == {0, 1}

\* SpecHandle: slices handed to Write are up to one byte longer than the largest block
MaxLen == MaxCap + 1

\* SpecHandle: buffers handed to Read are up to one byte longer than the largest block
MaxBuf == MaxCap + 1

Min(a, b) == IF a < b THEN a ELSE b

\* all sequences over S of length 0..n
RECURSIVE SeqsUpTo(_, _)
SeqsUpTo(S, n) ==
    IF n = 0 THEN {<< >>}
    ELSE LET shorter == SeqsUpTo(S, n - 1)
         IN  shorter \cup {Append(s, x) : s \in {t \in shorter : Len(t) = n - 1}, x \in S}

\* Go's copy(dst[at:], src): the first min(len(dst)-at, len(src)) bytes of src
\* overwrite dst from offset at (0-based); the rest of dst is kept.
copy(dst, at, src) ==
    LET n == Min(Len(dst) - at, Len(src))
    IN  [i \in 1..Len(dst) |-> IF i > at /\ i <= at + n THEN src[i - at] ELSE dst[i]]

\* the number of bytes copy(dst[at:], src) reports
copyN(dst, at, src) == Min(Len(dst) - at, Len(src))

\* uint arithmetic wraps at 2^WordBits
WordMod == 2 ^ WordBits

\* uint multiplication
umul(a, b) == (a * b) % WordMod

\* int(u): the conversion of a uint to the signed int of the same width
toInt(u) == IF u >= WordMod \div 2 THEN u - WordMod ELSE u

\* the smallest reasonable whose product with 10 wraps around the word
WrapReasonable == (WordMod + 9) \div 10

\* Spec: the inputs of New, and the sizes callers request
\* <<size, reasonable, buffer>>: reasonable 1 is a tenth of the arena, 2 is refused,
\* WrapReasonable passes the uint check although it is larger than the arena
NewInputs == {<<ArenaSize, 1, 0>>, <<ArenaSize, 1, 1>>, <<ArenaSize, 2, 1>>,
              <<ArenaSize, WrapReasonable, 1>>}
RequestSizes == {0, 1, ArenaSize + 1}

ArenaIds == 1..MaxArenas
HandleIds == 1..MaxHandles

VARIABLES
    \* ---- Spec ----
    newErr,   \* the error New returned ("nil" when it returned a Pool)
    pool,     \* the Pool struct's size, reasonable and the buffer capacity given
    arenas,   \* the arena structs: len(block), reasonable, next, the wg counter
    made,     \* the number of arenas constructed so far (arenas 1..made exist)
    current,  \* Pool.current
    pending,  \* 0: Pool.mu is free; n: GetWriter(n) holds it between handleDepleted and pool.Get
    buffer,   \* mempool.Pool.buffer: the channel's contents
    free,     \* mempool.Pool.p: the arenas the sync.Pool holds
    tasks,    \* the handleDepleted goroutines of each arena, counted by position
    handles,  \* the Writers and Readers the callers hold, in the order they got them
    crash,    \* the panic that ended the program ("none" while it runs)
    \* ---- SpecHandle ----
    w,        \* the Writer struct: block, at, once, wg
    r,        \* the Reader struct: block, at, once, wg
    phase,    \* "writer": the Writer is in use; "reader": Writer.Reader() was called
    hwg,      \* the WaitGroup counter w.wg / r.wg point to
    ret,      \* the last call on the handle with its arguments and results
    total,    \* sum of the byte counts Write has returned
    nwrites,  \* number of Write calls made
    nreads,   \* number of Read calls made
    resets,   \* number of Writer.Reset calls made
    stopped,  \* a Write has returned a short write on this handle
    first,    \* the slice handed to the first Write
    out       \* the bytes Read has returned, concatenated

hvars == <<w, r, phase, hwg, ret, total, nwrites, nreads, resets, stopped, first, out>>

pvars == <<newErr, pool, arenas, made, current, pending, buffer, free, tasks, handles,
           crash>>

vars == <<pvars, hvars>>

\* ret: op the call, len the length of its slice or buffer, n and err what it
\* returned, rem the remaining capacity (unread bytes) and at the cursor before the
\* call, changed whether the call changed a byte of the block, stopped whether an
\* earlier Write had already returned a short write.
NoRet == [op |-> "none", len |-> 0, n |-> 0, err |-> "nil", rem |-> 0, at |-> 0,
          changed |-> FALSE, stopped |-> FALSE]

(***************************************************************************)
(* Writer                                                                  *)
(***************************************************************************)
\* Writer.Len: the unwritten portion of the block
WriterLen(wr) == Len(wr.block) - wr.at

\* Writer.Cap
WriterCap(wr) == Len(wr.block)

\* Writer.Write as the code computes it: the Writer after the call, the count and
\* the error it returns.  The short-write branch copies the prefix that fits and
\* returns without assigning w.at.
WriterWrite(wr, b) ==
    IF wr.at >= Len(wr.block)
    THEN [w |-> wr, n |-> 0, err |-> "ErrShortWrite"]
    ELSE IF Len(b) > Len(wr.block) - wr.at
    THEN [w   |-> [wr EXCEPT !.block = copy(wr.block, wr.at, SubSeq(b, 1, Len(wr.block) - wr.at))],
          n   |-> Len(wr.block) - wr.at,
          err |-> "ErrShortWrite"]
    ELSE [w   |-> [wr EXCEPT !.block = copy(wr.block, wr.at, b),
                             !.at = wr.at + copyN(wr.block, wr.at, b)],
          n   |-> copyN(wr.block, wr.at, b),
          err |-> "nil"]

\* Writer.Reset
WriterReset(wr) == [wr EXCEPT !.at = 0]

\* (mutant) the Reader starts where the Writer stopped
ReaderOfKeepsAt(wr) == [block |-> wr.block, at |-> wr.at, once |-> "fresh", wg |-> wr.wg]

\* Writer.Reader builds the Reader over the whole of w.block, at position 0.
ReaderOf(wr) == [block |-> wr.block, at |-> 0, once |-> "fresh", wg |-> wr.wg]

(***************************************************************************)
(* Reader                                                                  *)
(***************************************************************************)
\* (mutant) end-of-data is signalled only by the call after the one that returned
\* the final bytes
ReaderReadLateEOF(rd, k) ==
    IF rd.at >= Len(rd.block)
    THEN [r |-> rd, got |-> << >>, n |-> 0, err |-> "EOF"]
    ELSE LET n == Min(k, Len(rd.block) - rd.at)
         IN  [r   |-> [rd EXCEPT !.at = rd.at + n],
              got |-> SubSeq(rd.block, rd.at + 1, rd.at + n),
              n   |-> n,
              err |-> "nil"]

\* Reader.Read with a buffer of length k: the Reader after the call, the bytes
\* copied into the buffer, the count and the error.
ReaderRead(rd, k) ==
    IF rd.at >= Len(rd.block)
    THEN [r |-> rd, got |-> << >>, n |-> 0, err |-> "EOF"]
    ELSE LET n == Min(k, Len(rd.block) - rd.at)
         IN  [r   |-> [rd EXCEPT !.at = rd.at + n],
              got |-> SubSeq(rd.block, rd.at + 1, rd.at + n),
              n   |-> n,
              err |-> IF rd.at + n = Len(rd.block) THEN "EOF" ELSE "nil"]

\* Reader.Len
ReaderLen(rd) == Len(rd.block) - rd.at

(***************************************************************************)
(* SpecHandle: one arena-backed Writer of capacity N over a block whose    *)
(* bytes are whatever the arena held (Reset does not zero the block).      *)
(***************************************************************************)
HandleInit ==
    /\ \E N \in 1..MaxCap : \E blk \in [1..N -> Bytes] :
          w = [block |-> blk, at |-> 0, once |-> "fresh", wg |-> "wg"]
    /\ r = [block |-> << >>, at |-> 0, once |-> "fresh", wg |-> "nil"]
    /\ phase = "writer"
    /\ hwg = 1
    /\ ret = NoRet
    /\ total = 0
    /\ nwrites = 0
    /\ nreads = 0
    /\ resets = 0
    /\ stopped = FALSE
    /\ first = << >>
    /\ out = << >>

\* w.Write(b)
Write(b) ==
    /\ phase = "writer"
    /\ nwrites < MaxWrites
    /\ LET res == WriterWrite(w, b)
       IN  /\ w' = res.w
           /\ ret' = [op |-> "Write", len |-> Len(b), n |-> res.n, err |-> res.err,
                      rem |-> WriterLen(w), at |-> w.at, changed |-> (res.w.block # w.block),
                      stopped |-> stopped]
           /\ total' = total + res.n
           /\ stopped' = (stopped \/ (Len(b) > WriterLen(w)))
    /\ nwrites' = nwrites + 1
    /\ first' = IF nwrites = 0 THEN b ELSE first
    /\ UNCHANGED <<r, phase, hwg, nreads, resets, out>>
    /\ UNCHANGED pvars

\* w.Reset()
WReset ==
    /\ phase = "writer"
    /\ resets < 1
    /\ w' = WriterReset(w)
    /\ resets' = resets + 1
    /\ ret' = [NoRet EXCEPT !.op = "Reset", !.rem = WriterLen(w), !.at = w.at]
    /\ UNCHANGED <<r, phase, hwg, total, nwrites, nreads, stopped, first, out>>
    /\ UNCHANGED pvars

\* w.Reader(): w.wg.Add(1), then w.Release() (once.Do(wg.Done)), then the Reader.
WriterReader ==
    /\ phase = "writer"
    /\ r' = ReaderOf(w)
    /\ w' = [w EXCEPT !.once = "done"]
    /\ hwg' = (hwg + 1) - (IF w.once = "fresh" THEN 1 ELSE 0)
    /\ phase' = "reader"
    /\ ret' = [NoRet EXCEPT !.op = "Reader", !.rem = WriterLen(w), !.at = w.at]
    /\ UNCHANGED <<total, nwrites, nreads, resets, stopped, first, out>>
    /\ UNCHANGED pvars

\* r.Read(buf) with len(buf) = k
Read(k) ==
    /\ phase = "reader"
    /\ nreads < MaxReads
    /\ LET res == ReaderRead(r, k)
       IN  /\ r' = res.r
           /\ out' = out \o res.got
           /\ ret' = [op |-> "Read", len |-> k, n |-> res.n, err |-> res.err,
                      rem |-> ReaderLen(r), at |-> r.at, changed |-> FALSE, stopped |-> stopped]
    /\ nreads' = nreads + 1
    /\ UNCHANGED <<w, phase, hwg, total, nwrites, resets, stopped, first>>
    /\ UNCHANGED pvars

HandleNext ==
    \/ \E b \in SeqsUpTo(Bytes, MaxLen) : Write(b)
    \/ WReset
    \/ WriterReader
    \/ \E k \in 0..MaxBuf : Read(k)

(***************************************************************************)
(* arena                                                                   *)
(***************************************************************************)
NoArena == [len |-> 0, reasonable |-> 0, next |-> 0, wg |-> 0]

\* newArena(size, reasonable uint): the check multiplies in uint
newArena(size, reasonable) ==
    IF umul(reasonable, 10) > size
    THEN [err |-> "reasonable block size is too large for arena", a |-> NoArena]
    ELSE [err |-> "nil",
          a   |-> [len |-> size, reasonable |-> toInt(reasonable), next |-> 0, wg |-> 0]]

\* A Writer or Reader a caller holds.  arena is the arena whose wg the handle points
\* to (0: wg is nil), [off, off+size) the range of that arena's block it views (a
\* block of its own when arena is 0); once is its sync.Once; pc is "adding" between
\* the two statements of Writer.Reader; rel counts the Release calls made on it (0,
\* 1, or 2 for two and more) and dones the wg.Done calls it has made.
NoHandle == [kind |-> "none", arena |-> 0, off |-> 0, size |-> 0, once |-> "fresh",
             pc |-> "idle", rel |-> 0, dones |-> 0]

NewWriter(arena, off, size) ==
    [NoHandle EXCEPT !.kind = "w", !.arena = arena, !.off = off, !.size = size]

\* (mutant) the arena counts the oversize Writer as a lease although the Writer
\* carries no wg to release it with
arenaGetWriterCountsOversize(ar, id, size) ==
    IF size < 1
    THEN [err |-> "size must be greater than 0", ar |-> ar, wr |-> NoHandle]
    ELSE IF size > ar.reasonable
    THEN [err |-> "nil", ar |-> [ar EXCEPT !.wg = ar.wg + 1], wr |-> NewWriter(0, 0, size)]
    ELSE IF ar.next + size > ar.len
    THEN [err |-> "arena is full", ar |-> ar, wr |-> NoHandle]
    ELSE [err |-> "nil",
          ar  |-> [ar EXCEPT !.wg = ar.wg + 1, !.next = ar.next + size],
          wr  |-> NewWriter(id, ar.next, size)]

\* (mutant) the arena reports arena-full for the request that would fill it exactly
arenaGetWriterFullAtEnd(ar, id, size) ==
    IF size < 1
    THEN [err |-> "size must be greater than 0", ar |-> ar, wr |-> NoHandle]
    ELSE IF size > ar.reasonable
    THEN [err |-> "nil", ar |-> ar, wr |-> NewWriter(0, 0, size)]
    ELSE IF ar.next + size >= ar.len
    THEN [err |-> "arena is full", ar |-> ar, wr |-> NoHandle]
    ELSE [err |-> "nil",
          ar  |-> [ar EXCEPT !.wg = ar.wg + 1, !.next = ar.next + size],
          wr  |-> NewWriter(id, ar.next, size)]

\* (mutant) the arena hands out a Writer without counting it
arenaGetWriterNoAdd(ar, id, size) ==
    IF size < 1
    THEN [err |-> "size must be greater than 0", ar |-> ar, wr |-> NoHandle]
    ELSE IF size > ar.reasonable
    THEN [err |-> "nil", ar |-> ar, wr |-> NewWriter(0, 0, size)]
    ELSE IF ar.next + size > ar.len
    THEN [err |-> "arena is full", ar |-> ar, wr |-> NoHandle]
    ELSE [err |-> "nil",
          ar  |-> [ar EXCEPT !.next = ar.next + size],
          wr  |-> NewWriter(id, ar.next, size)]

\* (mutant) the cursor is bumped by one, not by size
arenaGetWriterBumpsOne(ar, id, size) ==
    IF size < 1
    THEN [err |-> "size must be greater than 0", ar |-> ar, wr |-> NoHandle]
    ELSE IF size > ar.reasonable
    THEN [err |-> "nil", ar |-> ar, wr |-> NewWriter(0, 0, size)]
    ELSE IF ar.next + size > ar.len
    THEN [err |-> "arena is full", ar |-> ar, wr |-> NoHandle]
    ELSE [err |-> "nil",
          ar  |-> [ar EXCEPT !.wg = ar.wg + 1, !.next = ar.next + 1],
          wr  |-> NewWriter(id, ar.next, size)]

\* arena.GetWriter(size) on arena id with struct ar: the error, the arena after the
\* call and the Writer returned.
arenaGetWriter(ar, id, size) ==
    IF size < 1
    THEN [err |-> "size must be greater than 0", ar |-> ar, wr |-> NoHandle]
    ELSE IF size > ar.reasonable
    THEN [err |-> "nil", ar |-> ar, wr |-> NewWriter(0, 0, size)]
    ELSE IF ar.next + size > ar.len
    THEN [err |-> "arena is full", ar |-> ar, wr |-> NoHandle]
    ELSE [err |-> "nil",
          ar  |-> [ar EXCEPT !.wg = ar.wg + 1, !.next = ar.next + size],
          wr  |-> NewWriter(id, ar.next, size)]

\* (mutant) Reset leaves the cursor where it was
arenaResetKeepsCursor(ar) == ar

\* arena.Reset
arenaReset(ar) == [ar EXCEPT !.next = 0]

(***************************************************************************)
(* mempool.Pool                                                            *)
(***************************************************************************)
\* (mutant) Put drops the value when the buffer is full
mempoolPutDrops(buf, fr, cap, v) ==
    IF Len(buf) < cap
    THEN [buffer |-> Append(buf, v), free |-> fr]
    ELSE [buffer |-> buf, free |-> fr]

\* Pool.Put after the Reset hook: the non-blocking send on the buffer (a nil
\* channel of capacity 0 is never ready), else sync.Pool.Put.
mempoolPut(buf, fr, cap, v) ==
    IF Len(buf) < cap
    THEN [buffer |-> Append(buf, v), free |-> fr]
    ELSE [buffer |-> buf, free |-> fr \cup {v}]

\* (mutant) Get hands out the buffer's head or a pooled value and leaves it in the
\* recycler
mempoolGetKeeps(buf, fr, n) ==
    IF buf # << >>
    THEN {[v |-> Head(buf), buffer |-> buf, free |-> fr, made |-> n]}
    ELSE IF fr # {}
    THEN {[v |-> x, buffer |-> buf, free |-> fr, made |-> n] : x \in fr}
    ELSE {[v |-> n + 1, buffer |-> buf, free |-> fr, made |-> n + 1]}

\* Pool.Get: the outcomes of the non-blocking receive on the buffer, else of
\* sync.Pool.Get, which hands out a pooled value or calls New when it has none.
mempoolGet(buf, fr, n) ==
    IF buf # << >>
    THEN {[v |-> Head(buf), buffer |-> Tail(buf), free |-> fr, made |-> n]}
    ELSE IF fr # {}
    THEN {[v |-> x, buffer |-> buf, free |-> fr \ {x}, made |-> n] : x \in fr}
    ELSE {[v |-> n + 1, buffer |-> buf, free |-> fr, made |-> n + 1]}

(***************************************************************************)
(* Handles: Release                                                        *)
(***************************************************************************)
\* (mutant) Release without the Once: every call runs wg.Done()
handleReleaseNoOnce(hd) ==
    IF hd.arena = 0
    THEN [h |-> hd, done |-> FALSE]
    ELSE [h |-> [hd EXCEPT !.once = "done", !.dones = hd.dones + 1], done |-> TRUE]

\* Writer.Release / Reader.Release: nothing when wg is nil; else once.Do(wg.Done).
\* A call that finds the Once running returns after it is done, having done
\* nothing, so the call is modelled as one step.  done: whether wg.Done() ran.
handleRelease(hd) ==
    IF hd.arena = 0
    THEN [h |-> hd, done |-> FALSE]
    ELSE IF hd.once = "fresh"
    THEN [h |-> [hd EXCEPT !.once = "done", !.dones = hd.dones + 1], done |-> TRUE]
    ELSE [h |-> hd, done |-> FALSE]

\* wg.Done(): a counter below zero panics
wgDone(ar) == [ar EXCEPT !.wg = ar.wg - 1]

NoTasks == [wait |-> 0, reset |-> 0, push |-> 0]

(***************************************************************************)
(* The variables of the specification that is not running stay idle.       *)
(***************************************************************************)
HandleIdle ==
    /\ w = [block |-> << >>, at |-> 0, once |-> "fresh", wg |-> "nil"]
    /\ r = [block |-> << >>, at |-> 0, once |-> "fresh", wg |-> "nil"]
    /\ phase = "idle"
    /\ hwg = 0
    /\ ret = NoRet
    /\ total = 0
    /\ nwrites = 0
    /\ nreads = 0
    /\ resets = 0
    /\ stopped = FALSE
    /\ first = << >>
    /\ out = << >>

PoolIdle ==
    /\ newErr = "none"
    /\ pool = [size |-> 0, reasonable |-> 0, buffer |-> 0]
    /\ arenas = [a \in ArenaIds |-> NoArena]
    /\ made = 0
    /\ current = 0
    /\ pending = 0
    /\ buffer = << >>
    /\ free = {}
    /\ tasks = [a \in ArenaIds |-> NoTasks]
    /\ handles = << >>
    /\ crash = "none"

HInit == HandleInit /\ PoolIdle

HNext == HandleNext

SpecHandle == HInit /\ [][HNext]_vars

(***************************************************************************)
(* Claims about the handles, checked under SpecHandle.                     *)
(***************************************************************************)
\* One slice s with len(s) <= N was written into the fresh Writer, the Writer was
\* converted, and the last Read returned end-of-data.
RoundTripDone ==
    /\ phase = "reader"
    /\ nwrites = 1
    /\ resets = 0
    /\ Len(first) <= Len(r.block)
    /\ ret.op = "Read"
    /\ ret.err = "EOF"

\* C1 (as claimed): writing s with len(s) <= N into a fresh Writer of capacity N,
\* converting it with Writer.Reader and reading until end-of-data yields exactly s.
C1_RoundTripExact == RoundTripDone => out = first

\* C1 (amended): the reads yield exactly N bytes: s, then the N - len(s) bytes the
\* block held behind it; so exactly s when len(s) = N.
C1_RoundTripBlock ==
    RoundTripDone =>
        /\ Len(out) = Len(r.block)
        /\ out = first \o SubSeq(r.block, Len(first) + 1, Len(r.block))
        /\ (Len(first) = Len(r.block) => out = first)

\* C1 witness: a full-capacity slice of two bytes read back in two Reads
C1_Witness ==
    /\ RoundTripDone
    /\ Len(first) = Len(r.block)
    /\ Len(first) = 2
    /\ nreads = 2
    /\ out = first

\* A Write whose slice does not fit the remaining capacity has just returned.
ShortWriteReturned == ret.op = "Write" /\ ret.len > ret.rem

\* C2: a Write that does not fit copies the prefix that fits, returns its length
\* with the short write, and leaves the cursor at full capacity (Len() = 0); every
\* later Write returns 0 with the short write and changes no byte.
C2_ShortWriteHardStop ==
    resets = 0 =>
        /\ (ShortWriteReturned =>
               /\ ret.n = ret.rem
               /\ ret.err = "ErrShortWrite"
               /\ w.at = WriterCap(w)
               /\ WriterLen(w) = 0)
        /\ (ret.op = "Write" /\ ret.stopped =>
               /\ ret.n = 0
               /\ ret.err = "ErrShortWrite"
               /\ ~ret.changed)

\* C3: without Writer.Reset the counts Write returns never add up to more than N,
\* the cursor never exceeds N, and a Write that does not fit returns exactly the
\* remaining capacity with the short write.
C3_CapacityInvariant ==
    resets = 0 =>
        /\ total <= WriterCap(w)
        /\ w.at <= WriterCap(w)
        /\ (ShortWriteReturned => ret.n = ret.rem /\ ret.err = "ErrShortWrite")

\* C13: Read on a Reader at position p over a block of length L copies exactly
\* min(len(buffer), L - p) bytes starting at p and advances the position by that
\* amount; it signals end-of-data if and only if the position equals L after the
\* call (a read at p = L returns 0 bytes with end-of-data); the position never
\* exceeds L and never decreases.
C13_ReadSemantics ==
    /\ [](ret.op = "Read" =>
             /\ ret.n = Min(ret.len, Len(r.block) - ret.at)
             /\ r.at = ret.at + ret.n
             /\ SubSeq(out, Len(out) - ret.n + 1, Len(out))
                   = SubSeq(r.block, ret.at + 1, ret.at + ret.n)
             /\ ret.err \in {"nil", "EOF"}
             /\ (ret.err = "EOF" <=> r.at = Len(r.block))
             /\ (ret.at = Len(r.block) => ret.n = 0 /\ ret.err = "EOF"))
    /\ [](phase = "reader" => 0 <= r.at /\ r.at <= Len(r.block))
    /\ [][phase = "reader" => r'.at >= r.at /\ r'.block = r.block]_vars

\* C13 witness: after an earlier Read of one byte, a Read with a buffer longer than
\* what is left returns the final byte together with end-of-data
C13_Witness ==
    /\ ret.op = "Read"
    /\ ret.at = 1
    /\ Len(r.block) = 2
    /\ ret.len > ret.rem
    /\ ret.n = 1
    /\ ret.err = "EOF"

(***************************************************************************)
(* Pool                                                                    *)
(***************************************************************************)
\* New(ctx, name, size, reasonable, buffer): the error, or the Pool with its first
\* arena as current.
New(size, reasonable, buf) ==
    IF umul(reasonable, 10) > size
    THEN /\ newErr = "reasonable block size is too large for arena"
         /\ pool = [size |-> size, reasonable |-> reasonable, buffer |-> buf]
         /\ arenas = [a \in ArenaIds |-> NoArena]
         /\ made = 0
         /\ current = 0
    ELSE /\ newErr = newArena(size, reasonable).err
         /\ pool = [size |-> size, reasonable |-> reasonable, buffer |-> buf]
         /\ arenas = [a \in ArenaIds |-> IF a = 1 THEN newArena(size, reasonable).a ELSE NoArena]
         /\ made = 1
         /\ current = 1

Init ==
    /\ \E in \in NewInputs : New(in[1], in[2], in[3])
    /\ pending = 0
    /\ buffer = << >>
    /\ free = {}
    /\ tasks = [a \in ArenaIds |-> NoTasks]
    /\ handles = << >>
    /\ crash = "none"
    /\ HandleIdle

Running == newErr = "nil" /\ crash = "none"

\* the handles a caller holds
Held == DOMAIN handles

\* the caller keeps the Writer a call returned without error
Keep(hs, res) == IF res.err = "nil" THEN Append(hs, res.wr) ELSE hs

\* hs without its i-th handle
Drop(hs, i) == [j \in 1..(Len(hs) - 1) |-> IF j < i THEN hs[j] ELSE hs[j + 1]]

\* handleDepleted(a): one more goroutine, about to call a.Wait()
handleDepleted(ts, a) == [ts EXCEPT ![a].wait = @ + 1]

\* Pool.GetWriter(size) up to its return, or, on arena-full, up to and including
\* handleDepleted(p.current), with p.mu still held.
PoolGetWriter(size) ==
    /\ Running
    /\ pending = 0
    /\ LET res == arenaGetWriter(arenas[current], current, size)
       IN  IF res.err = "arena is full"
           THEN /\ tasks' = handleDepleted(tasks, current)
                /\ pending' = size
                /\ UNCHANGED <<arenas, handles>>
           ELSE /\ arenas' = [arenas EXCEPT ![current] = res.ar]
                /\ handles' = Keep(handles, res)
                /\ UNCHANGED <<tasks, pending>>
    /\ UNCHANGED <<newErr, pool, made, current, buffer, free, crash>>
    /\ UNCHANGED hvars

\* A caller with room for one more handle calls Pool.GetWriter(size).
GetWriter(size) ==
    /\ Len(handles) < MaxHandles
    /\ PoolGetWriter(size)

\* The rest of getWriter after arena-full: a := p.pool.Get(); p.current = a;
\* return a.GetWriter(size); p.mu is released.
getWriterRetry ==
    /\ Running
    /\ pending > 0
    /\ \E g \in mempoolGet(buffer, free, made) :
          /\ g.made <= MaxArenas
          /\ LET fresh == IF g.made > made
                          THEN [arenas EXCEPT ![g.v] = newArena(pool.size, pool.reasonable).a]
                          ELSE arenas
                 res   == arenaGetWriter(fresh[g.v], g.v, pending)
             IN  /\ arenas' = [fresh EXCEPT ![g.v] = res.ar]
                 /\ handles' = Keep(handles, res)
          /\ current' = g.v
          /\ buffer' = g.buffer
          /\ free' = g.free
          /\ made' = g.made
    /\ pending' = 0
    /\ UNCHANGED <<newErr, pool, tasks, crash>>
    /\ UNCHANGED hvars

\* (mutant) Writer.Reader without w.wg.Add(1): the Writer's release drops the
\* counter the Reader should hold
ReaderAddForgotten(h) ==
    /\ Running
    /\ h \in Held
    /\ handles[h].kind = "w"
    /\ handles[h].pc = "idle"
    /\ handles[h].rel = 0
    /\ IF handles[h].arena = 0
       THEN /\ crash' = "nil pointer dereference"
            /\ UNCHANGED <<arenas, handles>>
       ELSE /\ handles' = [handles EXCEPT ![h].pc = "adding"]
            /\ UNCHANGED <<arenas, crash>>
    /\ UNCHANGED <<newErr, pool, made, current, pending, buffer, free, tasks>>
    /\ UNCHANGED hvars

\* (mutant) Writer.Reader releases the Writer's hold first and adds the Reader's
\* afterwards
ReaderAddDoneFirst(h) ==
    /\ Running
    /\ h \in Held
    /\ handles[h].kind = "w"
    /\ handles[h].pc = "idle"
    /\ handles[h].rel = 0
    /\ IF handles[h].arena = 0
       THEN /\ crash' = "nil pointer dereference"
            /\ UNCHANGED <<arenas, handles>>
       ELSE /\ arenas' = [arenas EXCEPT ![handles[h].arena].wg = @ - 1]
            /\ handles' = [handles EXCEPT ![h].pc = "adding"]
            /\ UNCHANGED crash
    /\ UNCHANGED <<newErr, pool, made, current, pending, buffer, free, tasks>>
    /\ UNCHANGED hvars

\* The first statement of w.Reader(): w.wg.Add(1).  A Writer whose wg is nil
\* dereferences the nil pointer.
ReaderAdd(h) ==
    /\ Running
    /\ h \in Held
    /\ handles[h].kind = "w"
    /\ handles[h].pc = "idle"
    /\ handles[h].rel = 0
    /\ IF handles[h].arena = 0
       THEN /\ crash' = "nil pointer dereference"
            /\ UNCHANGED <<arenas, handles>>
       ELSE /\ arenas' = [arenas EXCEPT ![handles[h].arena].wg = @ + 1]
            /\ handles' = [handles EXCEPT ![h].pc = "adding"]
            /\ UNCHANGED crash
    /\ UNCHANGED <<newErr, pool, made, current, pending, buffer, free, tasks>>
    /\ UNCHANGED hvars

\* The rest of w.Reader(): w.Release(), then the Reader over w.block with w.wg and
\* a Once of its own.  The caller keeps the Reader in the Writer's place.
ReaderRelease(h) ==
    /\ Running
    /\ h \in Held
    /\ h \in Held
    /\ handles[h].kind = "w"
    /\ handles[h].pc = "adding"
    /\ LET rel == handleRelease(handles[h])
           a   == handles[h].arena
       IN  /\ IF rel.done /\ arenas[a].wg = 0
              THEN crash' = "negative WaitGroup counter" /\ UNCHANGED arenas
              ELSE /\ arenas' = IF rel.done THEN [arenas EXCEPT ![a] = wgDone(@)] ELSE arenas
                   /\ UNCHANGED crash
           /\ handles' = [handles EXCEPT ![h] =
                 [NoHandle EXCEPT !.kind = "r", !.arena = rel.h.arena,
                                  !.off = rel.h.off, !.size = rel.h.size]]
    /\ UNCHANGED <<newErr, pool, made, current, pending, buffer, free, tasks>>
    /\ UNCHANGED hvars

\* w.Release() or r.Release() on handle h, by any thread, any number of times.
Release(h) ==
    /\ Running
    /\ h \in Held
    /\ handles[h].kind \in {"w", "r"}
    /\ handles[h].pc = "idle"
    /\ LET rel == handleRelease(handles[h])
           a   == handles[h].arena
       IN  /\ IF rel.done /\ arenas[a].wg = 0
              THEN crash' = "negative WaitGroup counter" /\ UNCHANGED arenas
              ELSE /\ arenas' = IF rel.done THEN [arenas EXCEPT ![a] = wgDone(@)] ELSE arenas
                   /\ UNCHANGED crash
           /\ handles' = [handles EXCEPT ![h] = [rel.h EXCEPT !.rel = Min(@ + 1, 2)]]
    /\ UNCHANGED <<newErr, pool, made, current, pending, buffer, free, tasks>>
    /\ UNCHANGED hvars

\* The caller drops a handle it has released.
Forget(h) ==
    /\ Running
    /\ h \in Held
    /\ handles[h].kind \in {"w", "r"}
    /\ handles[h].pc = "idle"
    /\ handles[h].rel >= 1
    /\ handles' = Drop(handles, h)
    /\ UNCHANGED <<newErr, pool, arenas, made, current, pending, buffer, free, tasks, crash>>
    /\ UNCHANGED hvars

\* (mutant) the goroutine does not wait for the counter
WaitSkipped(a) ==
    /\ Running
    /\ tasks[a].wait > 0
    /\ tasks' = [tasks EXCEPT ![a].wait = @ - 1, ![a].reset = @ + 1]
    /\ UNCHANGED <<newErr, pool, arenas, made, current, pending, buffer, free, handles,
                   crash>>
    /\ UNCHANGED hvars

\* A handleDepleted goroutine of arena a returns from a.Wait(): the counter is 0.
Wait(a) ==
    /\ Running
    /\ tasks[a].wait > 0
    /\ arenas[a].wg = 0
    /\ tasks' = [tasks EXCEPT ![a].wait = @ - 1, ![a].reset = @ + 1]
    /\ UNCHANGED <<newErr, pool, arenas, made, current, pending, buffer, free, handles, crash>>
    /\ UNCHANGED hvars

\* The goroutine is in p.pool.Put(ctx, a): *arena has Reset(ctx), so it is a
\* mempool.Resetter and Put calls a.Reset(ctx).
Reset(a) ==
    /\ Running
    /\ tasks[a].reset > 0
    /\ arenas' = [arenas EXCEPT ![a] = arenaReset(@)]
    /\ tasks' = [tasks EXCEPT ![a].reset = @ - 1, ![a].push = @ + 1]
    /\ UNCHANGED <<newErr, pool, made, current, pending, buffer, free, handles, crash>>
    /\ UNCHANGED hvars

\* (mutant) the goroutine ends after the Reset hook and drops the arena
PutDrops(a) ==
    /\ Running
    /\ tasks[a].push > 0
    /\ tasks' = [tasks EXCEPT ![a].push = @ - 1]
    /\ UNCHANGED <<newErr, pool, arenas, made, current, pending, buffer, free, handles,
                   crash>>
    /\ UNCHANGED hvars

\* The rest of Put: the arena goes to the buffer or to the sync.Pool; the
\* goroutine ends.
Put(a) ==
    /\ Running
    /\ tasks[a].push > 0
    /\ LET put == mempoolPut(buffer, free, pool.buffer, a)
       IN  buffer' = put.buffer /\ free' = put.free
    /\ tasks' = [tasks EXCEPT ![a].push = @ - 1]
    /\ UNCHANGED <<newErr, pool, arenas, made, current, pending, handles, crash>>
    /\ UNCHANGED hvars

\* The runtime's memory manager drops a value the sync.Pool holds (a Get after it
\* finds the sync.Pool empty and calls New).
SyncPoolDrop(a) ==
    /\ Running
    /\ a \in free
    /\ free' = free \ {a}
    /\ UNCHANGED <<newErr, pool, arenas, made, current, pending, buffer, tasks, handles, crash>>
    /\ UNCHANGED hvars

PoolNext ==
    \/ \E size \in RequestSizes : GetWriter(size)
    \/ getWriterRetry
    \/ \E h \in HandleIds : ReaderAdd(h)
    \/ \E h \in HandleIds : ReaderRelease(h)
    \/ \E h \in HandleIds : Release(h)
    \/ \E h \in HandleIds : Forget(h)
    \/ \E a \in ArenaIds : Wait(a)
    \/ \E a \in ArenaIds : Reset(a)
    \/ \E a \in ArenaIds : Put(a)
    \/ \E a \in ArenaIds : SyncPoolDrop(a)

Next == PoolNext

Spec == Init /\ [][Next]_vars

\* The Pool with its scheduling: the runtime runs every goroutine that can take a
\* step, so the handleDepleted goroutine of an arena goes on when its Wait can
\* return or when it is in Put, and so does the GetWriter call that holds p.mu.
\* Callers are not obliged to call anything: a lease may never be released.
handleDepletedStep(a) == Wait(a) \/ Reset(a) \/ Put(a)

FairSpec ==
    /\ Spec
    /\ \A a \in ArenaIds : WF_vars(handleDepletedStep(a))
    /\ WF_vars(getWriterRetry)

(***************************************************************************)
(* Claims about the Pool, checked under Spec.                              *)
(***************************************************************************)
\* the handle a step has just handed to the caller
Last(hs) == hs[Len(hs)]

\* a step in which a GetWriter call that found the current arena full returns
RetryReturns == pending > 0 /\ pending' = 0

\* C4: Pool.GetWriter never returns the arena-full error: the one retry against the
\* swapped-in arena hands the caller a Writer of exactly the requested size.
C4_NeverArenaFull ==
    [][RetryReturns =>
          /\ Len(handles') = Len(handles) + 1
          /\ Last(handles').kind = "w"
          /\ Last(handles').size = pending]_vars

\* an unreleased lease: a handle with a wg whose Once has not run
Live(hd) == hd.arena # 0 /\ hd.once = "fresh"

\* a step that is a Release call on handle h (no handle is dropped or added, and
\* h's count of Release calls goes up)
Releases(h) ==
    /\ h \in Held
    /\ Len(handles') = Len(handles)
    /\ handles'[h].rel = handles[h].rel + 1

\* C5: any number of Release calls on one handle decrement the arena's counter
\* exactly once in total; the second and later calls change no state and raise no
\* error, and the counter never becomes negative.
C5_IdempotentRelease ==
    /\ [](/\ crash # "negative WaitGroup counter"
          /\ \A a \in ArenaIds : arenas[a].wg >= 0
          /\ \A h \in Held :
                /\ handles[h].dones <= 1
                /\ (handles[h].arena # 0 /\ handles[h].rel >= 1 => handles[h].dones = 1))
    /\ [][\A h \in HandleIds :
             Releases(h) =>
                /\ (handles[h].arena # 0 /\ handles[h].rel = 0 =>
                       arenas'[handles[h].arena].wg = arenas[handles[h].arena].wg - 1)
                /\ (handles[h].rel >= 1 =>
                       /\ handles' = [handles EXCEPT ![h].rel = @ + 1]
                       /\ UNCHANGED <<newErr, pool, arenas, made, current, pending,
                                      buffer, free, tasks, crash>>)]_vars

\* C5 witness: a Reader and a Writer of an arena, each released twice, each having
\* called wg.Done once
C5_Witness ==
    /\ Len(handles) = 2
    /\ handles[1].kind = "r" /\ handles[2].kind = "w"
    /\ \A h \in Held :
          handles[h].arena # 0 /\ handles[h].rel = 2 /\ handles[h].dones = 1

\* the byte ranges of two handles overlap
Overlap(h1, h2) == h1.off < h2.off + h2.size /\ h2.off < h1.off + h1.size

\* C6: no two unreleased leases view overlapping ranges of one arena's block, and no
\* arena is reset or re-issued under an unreleased lease: every unreleased lease
\* lies below its arena's cursor, and no goroutine is past Wait on its arena.
C6_NoPrematureReuse ==
    /\ \A h1, h2 \in Held :
          (h1 # h2 /\ Live(handles[h1]) /\ Live(handles[h2])
             /\ handles[h1].arena = handles[h2].arena)
          => ~Overlap(handles[h1], handles[h2])
    /\ \A h \in Held :
          Live(handles[h]) =>
             /\ handles[h].off + handles[h].size <= arenas[handles[h].arena].next
             /\ tasks[handles[h].arena].reset = 0
             /\ tasks[handles[h].arena].push = 0

\* C6 witness: arena 1 was retired, recycled and is current again with a lease of
\* its new generation, while arena 2 still drains under an unreleased Reader
C6_Witness ==
    /\ made = 2
    /\ current = 1
    /\ tasks[2].wait = 1
    /\ Len(handles) = 2
    /\ handles[1].kind = "r" /\ Live(handles[1]) /\ handles[1].arena = 2
    /\ handles[2].kind = "w" /\ Live(handles[2]) /\ handles[2].arena = 1
    /\ handles[1].off = handles[2].off

\* a step in which the goroutine of arena a runs a.Reset
Resets(a) == tasks'[a].reset < tasks[a].reset

ReturnsOversize == Len(handles') = Len(handles) + 1 /\ Last(handles').arena = 0

\* C9: a request larger than reasonable succeeds whatever the current arena's state,
\* with a block of its own of exactly size bytes; it changes neither the arena's
\* cursor nor its counter nor which arena is current, starts no swap, and Release
\* on the handle changes no counter.
C9_OversizeBypass ==
    /\ [](Running /\ pending = 0 =>
             \A size \in RequestSizes :
                (size >= 1 /\ size > arenas[current].reasonable) =>
                   LET res == arenaGetWriter(arenas[current], current, size)
                   IN  /\ res.err = "nil"
                       /\ res.wr.kind = "w" /\ res.wr.arena = 0 /\ res.wr.size = size
                       /\ res.ar = arenas[current])
    /\ [][/\ (ReturnsOversize =>
                 UNCHANGED <<arenas, current, tasks, pending, buffer, free, made>>)
          /\ (pending' > 0 => pending' <= arenas[current].reasonable)
          /\ \A h \in HandleIds :
                (Releases(h) /\ handles[h].arena = 0) =>
                   /\ arenas' = arenas
                   /\ handles' = [handles EXCEPT ![h].rel = @ + 1]]_vars

\* C9 witness: the only arena ever made is full (its last byte is leased), and the
\* oversize Writer obtained after that has been released; no swap was started
C9_Witness ==
    /\ made = 1
    /\ tasks[1] = NoTasks
    /\ pending = 0
    /\ arenas[1].next = arenas[1].len
    /\ Len(handles) = 2
    /\ handles[1].arena = 1 /\ handles[1].off + handles[1].size = arenas[1].len
    /\ handles[2].arena = 0 /\ handles[2].size = ArenaSize + 1 /\ handles[2].rel = 1

\* C10: Writer.Reader works on every Writer GetWriter returns, an oversize one (no
\* wg) included: the call completes without a panic, returns a Reader at offset 0
\* over the same block, and changes no counter.
C10_ReaderOfOversize ==
    [][\A h \in HandleIds :
          (ReaderAdd(h) /\ handles[h].arena = 0) =>
             /\ crash' = "none"
             /\ handles'[h].kind = "r"
             /\ handles'[h].off = handles[h].off /\ handles'[h].size = handles[h].size
             /\ arenas' = arenas]_vars

\* the arenas the recycler holds: the buffer's contents and the sync.Pool's
Recycled == {buffer[i] : i \in DOMAIN buffer} \cup free

\* a step in which getWriter installs an arena it took from the recycler
InstallsRecycled == RetryReturns /\ made' = made

\* a step that hands the caller an arena-backed Writer
ReturnsLease == Len(handles') = Len(handles) + 1 /\ Last(handles').arena # 0

\* C11: every arena getWriter takes from the recycler (buffer or sync.Pool) and
\* installs as current has cursor 0 and counter 0 at that moment, and its whole
\* block is on offer again: its first Writer starts at offset 0, every Writer ends
\* at the cursor within the block, and arena-full is signalled only for a request
\* that would take the leased total beyond len(block); after any number of cycles.
C11_RecycledArenaFresh ==
    /\ [](\A a \in Recycled :
             /\ arenas[a].next = 0
             /\ arenas[a].wg = 0
             /\ \A h \in Held : ~(Live(handles[h]) /\ handles[h].arena = a))
    /\ [][/\ (InstallsRecycled =>
                 /\ current' \in Recycled
                 /\ arenas[current'].next = 0
                 /\ arenas[current'].wg = 0
                 /\ (ReturnsLease => Last(handles').off = 0))
          /\ (ReturnsLease =>
                 /\ Last(handles').arena = current'
                 /\ Last(handles').off + Last(handles').size = arenas'[current'].next
                 /\ arenas'[current'].next <= arenas'[current'].len)
          /\ (pending = 0 /\ pending' > 0 =>
                 arenas[current].next + pending' > arenas[current].len)]_vars

\* C11 witness: arena 1 was retired, recycled and installed again (a second arena
\* exists), has since leased its whole block byte by byte, and the next request has
\* just found it full
C11_Witness ==
    /\ pool.reasonable = 1
    /\ made = 2
    /\ current = 1
    /\ arenas[1].next = arenas[1].len
    /\ pending = 1
    /\ tasks[1].wait = 1

\* C14: Writer.Reader on an unreleased arena-backed Writer increments the counter
\* for the Reader before it decrements the Writer's hold: the net change is 0, the
\* counter is never 0 between the two, so no Wait on the arena returns and the arena
\* is not reset between the Writer's release and the Reader's acquisition.
C14_LeaseTransfer ==
    /\ [](\A h \in Held :
             handles[h].pc = "adding" =>
                /\ handles[h].arena # 0
                /\ arenas[handles[h].arena].wg >= 2
                /\ tasks[handles[h].arena].reset = 0
                /\ tasks[handles[h].arena].push = 0)
    /\ [][\A h \in HandleIds :
             /\ (ReaderAdd(h) /\ handles[h].arena # 0 =>
                    /\ arenas[handles[h].arena].wg >= 1
                    /\ arenas'[handles[h].arena].wg = arenas[handles[h].arena].wg + 1)
             /\ (ReaderRelease(h) =>
                    /\ arenas'[handles[h].arena].wg = arenas[handles[h].arena].wg - 1
                    /\ arenas'[handles[h].arena].wg >= 1
                    /\ handles'[h].kind = "r"
                    /\ Live(handles'[h]))
             /\ (h \in Held /\ handles[h].pc = "adding" =>
                    /\ tasks'[handles[h].arena].wait >= tasks[handles[h].arena].wait
                    /\ ~Resets(handles[h].arena))]_vars

\* C14 witness: a Writer of a retired arena is between the two statements of
\* Writer.Reader while the arena's goroutine waits on the counter
C14_Witness ==
    \E h \in Held :
       /\ pool.reasonable = 1
       /\ handles[h].pc = "adding"
       /\ handles[h].arena # current
       /\ tasks[handles[h].arena].wait = 1
       /\ arenas[handles[h].arena].wg = 2

\* the holds on arena a's counter: one for every handle of the arena that is not
\* yet released (a Writer before its release or conversion, a Reader before its
\* release), and one for the Reader of every Writer that is between the two
\* statements of Writer.Reader
Holds(a) ==
    Cardinality({h \in Held : handles[h].arena = a /\ Live(handles[h])})
      + Cardinality({h \in Held : handles[h].arena = a /\ handles[h].pc = "adding"})

\* C15: in every reachable state, whatever the interleaving of GetWriter, Reader and
\* Release calls, each arena's counter equals the number of unreleased handles
\* issued from the arena's current generation; it is never negative, and it is 0
\* only when every such handle has been released.
C15_CounterInvariant ==
    \A a \in ArenaIds :
       /\ arenas[a].wg = Holds(a)
       /\ arenas[a].wg >= 0
       /\ (arenas[a].wg = 0 =>
              \A h \in Held : handles[h].arena = a => ~Live(handles[h]))
       /\ \A h \in Held :
             (handles[h].arena = a /\ Live(handles[h])) =>
                handles[h].off + handles[h].size <= arenas[a].next

\* C15 witness: the retired arena 1 is held by one unreleased Reader (counter 1)
\* while a Writer of arena 2 is being converted (counter 2)
C15_Witness ==
    /\ pool.reasonable = 1
    /\ Len(handles) = 2
    /\ handles[1].arena = 1 /\ handles[1].kind = "r" /\ Live(handles[1])
    /\ handles[2].arena = 2 /\ handles[2].pc = "adding"
    /\ tasks[1].wait = 1
    /\ arenas[1].wg = 1
    /\ arenas[2].wg = 2

\* the positions of a handleDepleted goroutine
Waiting == [NoTasks EXCEPT !.wait = 1]
Resetting == [NoTasks EXCEPT !.reset = 1]
Pushing == [NoTasks EXCEPT !.push = 1]

C17_NoBackpressure ==
    /\ (pending > 0)
          ~> (pending = 0 \/ crash # "none" \/ (made = MaxArenas /\ Recycled = {}))
    /\ [](Running /\ pending > 0 /\ (Recycled # {} \/ made < MaxArenas) =>
             ENABLED getWriterRetry)
    /\ [][RetryReturns =>
             /\ Len(handles') = Len(handles) + 1
             /\ Last(handles').size = pending
             /\ Last(handles').arena = current'
             /\ (Recycled = {} => made' = made + 1)
             /\ \A a \in ArenaIds : a # current' => arenas'[a] = arenas[a]
             /\ tasks' = tasks]_vars

\* a step in which the goroutine of arena a completes the push of mempool Put
Pushes(a) == tasks'[a].push < tasks[a].push

\* the arenas in the buffer after the step
BufferedNext == {buffer'[i] : i \in DOMAIN buffer'}

Draining(a) == tasks[a] # NoTasks
Roles(a) ==
    (IF a = current THEN 1 ELSE 0) + (IF Draining(a) THEN 1 ELSE 0)
       + (IF a \in Recycled THEN 1 ELSE 0)

\* what C19 states besides the exclusion of the current arena from the other roles:
\* one current arena, one goroutine per draining arena, one place per recycled
\* arena, and GetWriter advances the cursor of the current arena only
RolesWellFormed ==
    [](newErr = "nil" =>
          /\ current \in 1..made
          /\ \A a \in ArenaIds :
                /\ tasks[a] \in {NoTasks, Waiting, Resetting, Pushing}
                /\ ~(Draining(a) /\ a \in Recycled)
                /\ (a > made => Roles(a) = 0)
          /\ \A i, j \in DOMAIN buffer : i # j => buffer[i] # buffer[j]
          /\ \A i \in DOMAIN buffer : buffer[i] \notin free)

CursorOfCurrentOnly ==
    [][\A a \in ArenaIds :
          /\ (arenas'[a].next > arenas[a].next =>
                 a = current' /\ ReturnsLease /\ Last(handles').arena = a)
          /\ (ReturnsLease /\ a # current' => arenas'[a] = arenas[a])]_vars

C20_SizeInvariant ==
    /\ (pool.reasonable * 10 > pool.size => newErr # "nil")
    /\ (newErr = "nil" =>
           \A a \in 1..made :
              arenas[a].len # 0 => arenas[a].reasonable * 10 <= arenas[a].len)

(***************************************************************************)
(* SpecArena: one arena and the requests made of it between resets;        *)
(* handles is the list of the arena-backed Writers of the generation.      *)
(***************************************************************************)
\* <<size, reasonable>> handed to newArena: a twentieth-of-the-arena limit, a tenth,
\* and a limit that passes the uint check although it is larger than the arena
ArenaInputs == {<<2 * ArenaSize, 2>>, <<ArenaSize, 1>>, <<ArenaSize, WrapReasonable>>}
ArenaRequestSizes == 0..3

AInit ==
    /\ \E in \in ArenaInputs :
          arenas = [a \in ArenaIds |-> IF a = 1 THEN newArena(in[1], in[2]).a ELSE NoArena]
    /\ newErr = "none"
    /\ pool = [size |-> 0, reasonable |-> 0, buffer |-> 0]
    /\ made = 1
    /\ current = 0
    /\ pending = 0
    /\ buffer = << >>
    /\ free = {}
    /\ tasks = [a \in ArenaIds |-> NoTasks]
    /\ handles = << >>
    /\ crash = "none"
    /\ HandleIdle

\* a.GetWriter(size) on the arena
ArenaRequest(size) ==
    /\ LET res == arenaGetWriter(arenas[1], 1, size)
       IN  /\ arenas' = [arenas EXCEPT ![1] = res.ar]
           /\ handles' = IF res.err = "nil" /\ res.wr.arena # 0
                         THEN Append(handles, res.wr)
                         ELSE handles
    /\ UNCHANGED <<newErr, pool, made, current, pending, buffer, free, tasks, crash>>
    /\ UNCHANGED hvars

\* Every Writer of the generation is released (the counter drops to 0, as Wait
\* requires), then a.Reset(ctx): the generation ends.
ArenaReset ==
    /\ handles # << >>
    /\ arenas' = [arenas EXCEPT ![1] = arenaReset([@ EXCEPT !.wg = 0])]
    /\ handles' = << >>
    /\ UNCHANGED <<newErr, pool, made, current, pending, buffer, free, tasks, crash>>
    /\ UNCHANGED hvars

ANext ==
    \/ \E size \in ArenaRequestSizes : ArenaRequest(size)
    \/ ArenaReset

SpecArena == AInit /\ [][ANext]_vars

\* C7: the k-th range an arena returns between resets is [c_k, c_k + size_k) with
\* c_1 = 0 and c_{k+1} = c_k + size_k; the ranges are pairwise disjoint and lie
\* within the block.
C7_Disjointness ==
    /\ \A k \in DOMAIN handles :
          /\ handles[k].off = IF k = 1 THEN 0 ELSE handles[k - 1].off + handles[k - 1].size
          /\ 0 <= handles[k].off
          /\ handles[k].off + handles[k].size <= arenas[1].len
    /\ \A j, k \in DOMAIN handles : j # k => ~Overlap(handles[j], handles[k])

\* C7 witness: requests of 2, 1 and 2 bytes, the last one ending the block
C7_Witness ==
    /\ Len(handles) >= 3
    /\ handles[1].size = 2 /\ handles[2].size = 1 /\ handles[3].size = 2
    /\ Last(handles).off + Last(handles).size = arenas[1].len
    /\ arenas[1].reasonable = 2

(***************************************************************************)
(* SpecTest: TestPool.  One producer goroutine asks the Pool for Writers   *)
(* of one size n, 2 * size / n of them (20 MiB of 1 KiB Writers from a     *)
(* 10 MiB arena, scaled down), converts each to a Reader and hands it to   *)
(* the consumers, who release it.  handles is the list of every handle     *)
(* the producer obtained, in order.                                        *)
(***************************************************************************)
\* <<size, reasonable, buffer>> handed to New, and the sizes n the producer asks for
TestInputs == {<<ArenaSize, 1, 1>>, <<ArenaSize, 1, 0>>, <<2 * ArenaSize, 2, 1>>}
TestSizes == {1, 2}

\* the positions of the producer's list: at most 2 * size / n requests
TestIds == 1..(4 * ArenaSize)

TInit ==
    /\ \E in \in TestInputs : New(in[1], in[2], in[3])
    /\ pending = 0
    /\ buffer = << >>
    /\ free = {}
    /\ tasks = [a \in ArenaIds |-> NoTasks]
    /\ handles = << >>
    /\ crash = "none"
    /\ HandleIdle

\* The producer's next pool.GetWriter(ctx, n): n divides the arena's size, is within
\* reasonable and is the size of every request of the run; the earlier Writer has
\* been converted and handed over.
TestGetWriter(n) ==
    /\ n <= pool.reasonable
    /\ pool.size % n = 0
    /\ Len(handles) < 2 * (pool.size \div n)
    /\ handles # << >> => n = handles[1].size /\ Last(handles).kind = "r"
    /\ Cardinality({h \in Held : handles[h].rel = 0}) < MaxInFlight
    /\ PoolGetWriter(n)

\* r := w.Reader() on the Writer just obtained: w.wg.Add(1) ...
TestReaderAdd(h) ==
    /\ h = Len(handles)
    /\ ReaderAdd(h)

\* ... then w.Release() and the Reader
TestReaderRelease(h) ==
    /\ h = Len(handles)
    /\ ReaderRelease(h)

\* a consumer's r.Release()
TestRelease(h) ==
    /\ h \in Held
    /\ handles[h].kind = "r"
    /\ handles[h].rel = 0
    /\ Release(h)

TNext ==
    \/ \E n \in TestSizes : TestGetWriter(n)
    \/ getWriterRetry
    \/ \E h \in TestIds : TestReaderAdd(h)
    \/ \E h \in TestIds : TestReaderRelease(h)
    \/ \E h \in TestIds : TestRelease(h)
    \/ \E a \in ArenaIds : Wait(a)
    \/ \E a \in ArenaIds : Reset(a)
    \/ \E a \in ArenaIds : Put(a)
    \/ \E a \in ArenaIds : SyncPoolDrop(a)

SpecTest == TInit /\ [][TNext]_vars

\* the swaps the Pool has performed: every Writer but the first that starts at
\* offset 0 is the one the retry a.GetWriter(size) returned after p.current = a
Swaps == Cardinality({k \in 2..Len(handles) : handles[k].off = 0})

\* the number of requests of the run's size that fill one arena: S / n
TestFill == pool.size \div handles[1].size

\* exactly k requests have been issued, and each handle converted and released
TestDone(k) ==
    /\ Len(handles) = k
    /\ pending = 0
    /\ \A h \in Held : handles[h].kind = "r" /\ handles[h].rel >= 1

\* C12 (as claimed): after exactly S/n sequential requests of n bytes on a fresh
\* Pool, each converted to a Reader and released, the Pool has performed exactly
\* one arena swap.
C12_OneSwapAtFill ==
    (handles # << >> /\ TestDone(TestFill)) => Swaps = 1

\* C12 (amended): the k-th request swaps exactly when k - 1 is a positive multiple
\* of S/n: S/n requests fill the first arena without a swap, request S/n + 1
\* performs the first swap, and the 2 * S/n requests of TestPool perform exactly one.
C12_SwapCount ==
    handles # << >> =>
        /\ Swaps = (Len(handles) - 1) \div TestFill
        /\ (TestDone(TestFill) => Swaps = 0 /\ made = 1 /\ arenas[1].next = arenas[1].len)
        /\ (TestDone(2 * TestFill) => Swaps = 1)

\* C12 witness: TestPool scaled down has run to its end: 2 * S/n Readers released,
\* one swap, the second arena exactly full
C12_Witness ==
    /\ handles # << >>
    /\ pool.size = ArenaSize /\ pool.buffer = 1
    /\ TestDone(2 * TestFill)
    /\ Swaps = 1
    /\ arenas[current].next = arenas[current].len
====
